---------------------------- MODULE Spec2Model ----------------------------
(***************************************************************************)
(* State-machine model of HeatEquationSolver                               *)
(* (src/pipeline/heatEquationSolver.py): a 2-D FTCS heat-equation solver   *)
(* with Robin boundary conditions, thermostat-controlled radiators and     *)
(* optional windows.                                                       *)
(*                                                                         *)
(* Number representation.  Lengths (Lx, Ly, dx and the coordinates passed  *)
(* to add_radiator / set_sensor_region) are integers in a length unit;     *)
(* with dx = 2 a coordinate may fall on a half cell, so round() matters.   *)
(* Conductivities are integers in 1/1000 W/(m K).  The coefficients the    *)
(* code derives once from the configuration (diffusion_factor, beta_*,     *)
(* heating_factor_per_step) are kept as exact ratios.  The temperature     *)
(* field holds integers (temperature quanta); every product or quotient    *)
(* stored into the field is rounded to the nearest quantum, as a           *)
(* floating-point store rounds to the nearest representable value.         *)
(* Comparisons of means are exact.                                         *)
(***************************************************************************)
EXTENDS Integers, Sequences, FiniteSets, TLC

VARIABLES
    config,                   \* the configuration dict given to __init__
    constructed,              \* "ok", or the exception __init__ raised
    u,                        \* self.u, the ny x nx temperature field
    radiator_mask,            \* self.radiator_mask, ny x nx booleans
    mask_inner_bound,         \* whether attribute self.mask_inner exists
    active_cells_count,       \* self.active_cells_count
    heating_factor_per_step,  \* self.heating_factor_per_step as <<num, den>>
    total_energy,             \* self.total_energy
    sensor_mask,              \* self.sensor_mask, ny x nx booleans
    window_left,              \* self.window_left
    window_right,             \* self.window_right
    run,                      \* position of an executing run(steps) call
    last,                     \* history: the last operation and its outcome
    covered,                  \* history: cells of the rectangles added since
                              \* construction or the last clear_radiators
    probe,                    \* history: one recorded set_sensor_region call
    called,                   \* history: the names of the operations called
    nops,                     \* history: number of operations called so far
    main,                     \* the script src/notebooks/main.py: its grid
                              \* step h, time step dt, alpha and what its
                              \* stability check printed
    twin                      \* a second solver built from the same
                              \* configuration, for comparing two runs

vars == <<config, constructed, u, radiator_mask, mask_inner_bound,
          active_cells_count, heating_factor_per_step, total_energy,
          sensor_mask, window_left, window_right, run, last, covered,
          probe, called, nops, main, twin>>

---------------------------------------------------------------------------
(* Bounds of the model *)

\* operations called on one solver (run() counts as one)
MaxOps == 3

\* largest argument of run(steps)
MaxRunSteps == 11

\* step() calls made on each of two solvers compared side by side
MaxTwinSteps == 4

\* a run of repeated step() calls is followed while every cell of the field
\* lies within this many quanta of u_outdoor
MaxExcursion == 400

\* the epsilon of the convergence property, in quanta: the smallest one the
\* rounding of stored values to whole quanta lets the field reach
Epsilon == 2

\* bits of the significand of a floating-point number (53 in a double)
Precision == 8

\* a floating-point number is held as an integer multiple of 2^-ScaleBits
ScaleBits == 4

\* step() calls followed in floating-point arithmetic
MaxFloatSteps == 12

\* rows of the tallest grid whose window span is computed
MaxRows == 12

---------------------------------------------------------------------------
(* Python / numpy primitives *)

Min(a, b) == IF a < b THEN a ELSE b

Max(a, b) == IF a > b THEN a ELSE b

\* int(round(n / d)) for d # 0: Python 3 rounds halves to the even integer
PyRound(n, d) ==
    LET nn == IF d < 0 THEN -n ELSE n
        dd == IF d < 0 THEN -d ELSE d
        q  == nn \div dd
        r  == nn - q * dd
    IN  IF 2 * r < dd THEN q
        ELSE IF 2 * r > dd THEN q + 1
        ELSE IF q % 2 = 0 THEN q ELSE q + 1

\* int(n / d) for d > 0: float division, then truncation toward zero
PyIntDiv(n, d) == IF n >= 0 THEN n \div d ELSE -((-n) \div d)

\* n / d stored as a field value: the nearest quantum (d > 0)
RoundDiv(n, d) == (2 * n + d) \div (2 * d)

\* a slice bound i on an axis of length n, as Python normalises it
NormIdx(i, n) == IF i < 0 THEN Max(i + n, 0) ELSE Min(i, n)

\* first index and length of the slice [a:b] of an axis of length n
SliceStart(a, n) == NormIdx(a, n)

SliceLen(a, b, n) == Max(NormIdx(b, n) - NormIdx(a, n), 0)

\* shape of an array held as a function 0..rows-1 -> (0..cols-1 -> value)
NumRows(A) == Cardinality(DOMAIN A)

NumCols(A) == IF NumRows(A) = 0 THEN 0 ELSE Cardinality(DOMAIN A[0])

\* A[r0:r1, c0:c1] on an array of shape nr x nc, re-indexed from 0
Sub(A, r0, r1, c0, c1, nr, nc) ==
    [i \in 0..(SliceLen(r0, r1, nr) - 1) |->
        [j \in 0..(SliceLen(c0, c1, nc) - 1) |->
            A[SliceStart(r0, nr) + i][SliceStart(c0, nc) + j]]]

\* A[r0:r1, c0:c1] = B, B of the slice's shape
Assign(A, r0, r1, c0, c1, nr, nc, B) ==
    LET rs == SliceStart(r0, nr)
        cs == SliceStart(c0, nc)
        rl == SliceLen(r0, r1, nr)
        cl == SliceLen(c0, c1, nc)
    IN  [i \in 0..(nr - 1) |->
            [j \in 0..(nc - 1) |->
                IF i >= rs /\ i < rs + rl /\ j >= cs /\ j < cs + cl
                THEN B[i - rs][j - cs] ELSE A[i][j]]]

\* A[r0:r1, c0:c1] = v, a scalar broadcast over the slice
Fill(A, r0, r1, c0, c1, nr, nc, v) ==
    LET rs == SliceStart(r0, nr)
        cs == SliceStart(c0, nc)
        rl == SliceLen(r0, r1, nr)
        cl == SliceLen(c0, c1, nc)
    IN  [i \in 0..(nr - 1) |->
            [j \in 0..(nc - 1) |->
                IF i >= rs /\ i < rs + rl /\ j >= cs /\ j < cs + cl
                THEN v ELSE A[i][j]]]

\* np.ones / np.zeros of shape nr x nc, times a scalar
Full(nr, nc, v) == [i \in 0..(nr - 1) |-> [j \in 0..(nc - 1) |-> v]]

RECURSIVE SumRow(_, _)
SumRow(row, k) == IF k = 0 THEN 0 ELSE row[k - 1] + SumRow(row, k - 1)

RECURSIVE SumRows(_, _, _)
SumRows(A, k, nc) ==
    IF k = 0 THEN 0 ELSE SumRow(A[k - 1], nc) + SumRows(A, k - 1, nc)

\* np.sum(A) of an integer array
NpSum(A) == SumRows(A, NumRows(A), NumCols(A))

\* np.sum(M) of a boolean array: the number of True entries
NpCount(M) ==
    NpSum([i \in DOMAIN M |-> [j \in DOMAIN M[i] |-> IF M[i][j] THEN 1 ELSE 0]])

\* np.sum(A[M]): the sum of A over the True entries of the mask M
NpMaskedSum(A, M) ==
    NpSum([i \in DOMAIN A |-> [j \in DOMAIN A[i] |-> IF M[i][j] THEN A[i][j] ELSE 0]])

\* np.any(M)
NpAny(M) == \E i \in DOMAIN M : \E j \in DOMAIN M[i] : M[i][j]

---------------------------------------------------------------------------
(* Attributes __init__ derives from the configuration *)

lambda_air_default == 26

lambda_wall_default == 500

lambda_window_default == 2000

\* dict.get(key, default)
Get(d, key, default) == IF key \in DOMAIN d THEN d[key] ELSE default

Lx == config["Lx"]

Ly == config["Ly"]

dx == config["dx"]

dt == config["dt"]

nx == PyRound(Lx, dx)

ny == PyRound(Ly, dx)

alpha == config["alpha"]

u_outdoor == config["u_outdoor"]

P == config["power"]

p_pressure == config["pressure"]

r_gas == config["r_gas"]

c_specific == config["c_specific"]

area == dx * dx

thermostat_setting == config["thermostat_temp"]

lambda_air == Get(config, "lambda_air", lambda_air_default)

lambda_wall == Get(config, "lambda_wall", lambda_wall_default)

lambda_window == Get(config, "lambda_window", lambda_window_default)

\* beta = (lambda_material / lambda_air) * dx, as <<numerator, denominator>>
beta_wall == <<lambda_wall * dx, lambda_air>>

beta_window == <<lambda_window * dx, lambda_air>>

\* The exception __init__ raises on configuration c, or "ok": Lx / dx
\* divides by zero when dx = 0, and np.ones refuses a negative dimension.
\* Nothing else is validated.
Construct(c) ==
    IF c["dx"] = 0 THEN "ZeroDivisionError"
    ELSE IF PyRound(c["Lx"], c["dx"]) < 0 \/ PyRound(c["Ly"], c["dx"]) < 0
         THEN "ValueError"
    ELSE "ok"


---------------------------------------------------------------------------
(* clear_radiators, add_radiator, set_sensor_region *)

\* self.radiator_mask[:, :] = False
ClearMask(m) == Fill(m, 0, ny, 0, nx, ny, nx, FALSE)

\* self.radiator_mask[iy_start:iy_end, ix_start:ix_end] = True, with the
\* end indices (only) limited to the domain
AddRadiatorMask(m, x_start, y_start, width, height) ==
    LET ix_start == PyRound(x_start, dx)
        iy_start == PyRound(y_start, dx)
        ix_end   == Min(PyRound(x_start + width, dx), nx)
        iy_end   == Min(PyRound(y_start + height, dx), ny)
    IN  Fill(m, iy_start, iy_end, ix_start, ix_end, ny, nx, TRUE)

\* mutant: the view is cut one cell too early on both axes
MaskInnerSlice_Shifted == <<0, -2, 0, -2>>

\* the slice [1:-1, 1:-1] that makes self.mask_inner, as <<r0, r1, c0, c1>>
MaskInnerSlice == <<1, -1, 1, -1>>

\* self.mask_inner = self.radiator_mask[1:-1, 1:-1]: a view, so it follows
\* every later in-place write to radiator_mask
MaskInner(m) ==
    Sub(m, MaskInnerSlice[1], MaskInnerSlice[2], MaskInnerSlice[3],
        MaskInnerSlice[4], ny, nx)

\* the cells of radiator_mask that the view mask_inner shows as True: entry
\* (i, j) of the view is the mask's cell (r0 + i, c0 + j)
MaskInnerCells(m) ==
    LET mi == MaskInner(m)
    IN  {<<SliceStart(MaskInnerSlice[1], ny) + ij[1],
           SliceStart(MaskInnerSlice[3], nx) + ij[2]>> :
            ij \in {ij \in (0..(ny - 1)) \X (0..(nx - 1)) :
                      ij[1] \in DOMAIN mi /\ ij[2] \in DOMAIN mi[ij[1]]
                      /\ mi[ij[1]][ij[2]]}}

\* np.sum(self.mask_inner)
CountActive(m) == NpCount(MaskInner(m))

\* mutant: the factor is computed by the first add_radiator only
HeatingFactor_FirstOnly(count, old) ==
    IF count > 0 /\ old[1] = 0
    THEN <<P * r_gas * dt, count * p_pressure * area * c_specific>>
    ELSE old

\* heating_factor_per_step after add_radiator: recomputed when cells are
\* active, otherwise left as it was
HeatingFactor(count, old) ==
    IF count > 0
    THEN <<P * r_gas * dt, count * p_pressure * area * c_specific>>
    ELSE old

\* mutant: the reset is forgotten
SensorReset_Keep(m) == m

\* self.sensor_mask[:, :] = False
SensorReset(m) == Fill(m, 0, ny, 0, nx, ny, nx, FALSE)

\* mutant: an empty column range returns before the reset
SetSensorMask_EarlyReturn(m, x_start, x_end) ==
    LET ix_start == PyRound(x_start, dx)
        ix_end   == Min(PyRound(x_end, dx), nx)
    IN  IF SliceLen(ix_start, ix_end, nx) = 0 THEN m
        ELSE Fill(SensorReset(m), 1, -1, ix_start, ix_end, ny, nx, TRUE)

\* set_sensor_region: reset, then sensor_mask[1:-1, ix_start:ix_end] = True
SetSensorMask(m, x_start, x_end) ==
    LET ix_start == PyRound(x_start, dx)
        ix_end   == Min(PyRound(x_end, dx), nx)
    IN  Fill(SensorReset(m), 1, -1, ix_start, ix_end, ny, nx, TRUE)

---------------------------------------------------------------------------
(* _apply_boundary_conditions *)

\* an integer index i on an axis of length n
Idx(i, n) == IF i < 0 THEN i + n ELSE i

\* mutant: an insulated wall, the edge cell copies its neighbour
Robin_Insulated(v, b) == v

\* (v + beta * u_outdoor) / (1 + beta) with beta = b[1] / b[2]
Robin(v, b) == RoundDiv(v * b[2] + b[1] * u_outdoor, b[2] + b[1])

\* A[r0:r1, dst] = Robin(A[r0:r1, src])
RobinCol(A, dst, src, r0, r1, b) ==
    LET rs == SliceStart(r0, ny)
        rl == SliceLen(r0, r1, ny)
    IN  [i \in 0..(ny - 1) |->
            [j \in 0..(nx - 1) |->
                IF j = Idx(dst, nx) /\ i >= rs /\ i < rs + rl
                THEN Robin(A[i][Idx(src, nx)], b) ELSE A[i][j]]]

\* A[dst, :] = Robin(A[src, :])
RobinRow(A, dst, src, b) ==
    [i \in 0..(ny - 1) |->
        [j \in 0..(nx - 1) |->
            IF i = Idx(dst, ny) THEN Robin(A[Idx(src, ny)][j], b) ELSE A[i][j]]]

\* mutant: the window takes the whole height of the wall
window_size_WholeWall == ny

window_size == PyIntDiv(ny, 2)

window_y_start == PyIntDiv(ny - window_size, 2)

window_y_end == window_y_start + window_size

\* the left and right columns: u[:, 0] from u[:, 1], then u[:, -1] from u[:, -2]
WallColumns(A) ==
    RobinCol(RobinCol(A, 0, 1, 0, ny, beta_wall), -1, -2, 0, ny, beta_wall)

\* mutant: the top and bottom rows are treated as windows
WallRows_Window(A) ==
    RobinRow(RobinRow(A, -1, -2, beta_window), 0, 1, beta_window)

\* mutant: the bottom and top row updates leave the corners as the column
\* updates wrote them
WallRows_KeepCorners(A) ==
    LET B == RobinRow(RobinRow(A, -1, -2, beta_wall), 0, 1, beta_wall)
    IN  [i \in 0..(ny - 1) |->
            [j \in 0..(nx - 1) |->
                IF j \in {0, nx - 1} THEN A[i][j] ELSE B[i][j]]]

\* the bottom and top rows: u[-1, :] from u[-2, :], then u[0, :] from u[1, :]
WallRows(A) == RobinRow(RobinRow(A, -1, -2, beta_wall), 0, 1, beta_wall)

\* mutant: a window takes the whole height of its wall
WindowColumns_WholeEdge(A, left, right) ==
    LET B == IF left THEN RobinCol(A, 0, 1, 0, ny, beta_window) ELSE A
    IN  IF right THEN RobinCol(B, -1, -2, 0, ny, beta_window) ELSE B

\* the window overrides on the left and the right column
WindowColumns(A, left, right) ==
    LET B == IF left
             THEN RobinCol(A, 0, 1, window_y_start, window_y_end, beta_window)
             ELSE A
    IN  IF right
        THEN RobinCol(B, -1, -2, window_y_start, window_y_end, beta_window)
        ELSE B

\* The field after _apply_boundary_conditions, and the exception it raised.
\* An axis shorter than 2 makes an integer index fall outside it: with
\* nx < 2 the first statement raises, with ny < 2 the third one does.
ApplyBoundaryConditions(A) ==
    IF nx < 2 THEN [u |-> A, exc |-> "IndexError"]
    ELSE IF ny < 2 THEN [u |-> WallColumns(A), exc |-> "IndexError"]
    ELSE [u   |-> WindowColumns(WallRows(WallColumns(A)), window_left, window_right),
          exc |-> "none"]

---------------------------------------------------------------------------
(* step *)

\* the slice [1:-1, 1:-1] of the field that step reads as u_inner and
\* writes with u[1:-1, 1:-1] += change, as <<r0, r1, c0, c1>>
InnerSlice == <<1, -1, 1, -1>>

\* u_inner = u[1:-1, 1:-1]
Inner(A) ==
    Sub(A, InnerSlice[1], InnerSlice[2], InnerSlice[3], InnerSlice[4], ny, nx)

\* u[0:-2, 1:-1] + u[2:, 1:-1] + u[1:-1, 0:-2] + u[1:-1, 2:] - 4.0 * u_inner
LaplacianSum(A) ==
    LET up    == Sub(A, 0, -2, 1, -1, ny, nx)
        down  == Sub(A, 2, ny, 1, -1, ny, nx)
        left  == Sub(A, 1, -1, 0, -2, ny, nx)
        right == Sub(A, 1, -1, 2, nx, ny, nx)
        inner == Inner(A)
    IN  [i \in DOMAIN inner |->
            [j \in DOMAIN inner[i] |->
                up[i][j] + down[i][j] + left[i][j] + right[i][j] - 4 * inner[i][j]]]

\* change = diffusion_factor * laplacian_sum, diffusion_factor = alpha*dt/dx**2
DiffusionChange(A) ==
    LET lap == LaplacianSum(A)
    IN  [i \in DOMAIN lap |->
            [j \in DOMAIN lap[i] |-> RoundDiv(alpha * dt * lap[i][j], dx * dx)]]

\* mutant: with an empty sensor mask the mean is taken over the interior
BelowSetting_EmptyInterior(A, sm) ==
    IF NpAny(sm)
    THEN NpMaskedSum(A, sm) < thermostat_setting * NpCount(sm)
    ELSE (ny - 2) * (nx - 2) > 0
         /\ NpSum(Sub(A, 1, -1, 1, -1, ny, nx))
                < thermostat_setting * (ny - 2) * (nx - 2)

\* mutant: the thermostat also fires at the setpoint itself
BelowSetting_Inclusive(A, sm) ==
    IF NpAny(sm)
    THEN NpMaskedSum(A, sm) <= thermostat_setting * NpCount(sm)
    ELSE ny * nx > 0 /\ NpSum(A) <= thermostat_setting * ny * nx

\* current_mean_temp < thermostat_setting, where current_mean_temp is the
\* mean over the sensor mask, or over the whole field when the mask is
\* empty (the mean of an empty field is nan, below nothing)
BelowSetting(A, sm) ==
    IF NpAny(sm)
    THEN NpMaskedSum(A, sm) < thermostat_setting * NpCount(sm)
    ELSE ny * nx > 0 /\ NpSum(A) < thermostat_setting * ny * nx

\* mutant: the number of active cells is not looked at
Fires_NoCountGuard(A, sm, count) == BelowSetting(A, sm)

\* the radiator fires in this step
Fires(A, sm, count) == BelowSetting(A, sm) /\ count > 0

\* mutant: the source term is added to every interior cell
AddSource_Everywhere(change, A, m, hf) ==
    LET inner == Inner(A)
    IN  [i \in DOMAIN change |->
            [j \in DOMAIN change[i] |->
                change[i][j] + RoundDiv(hf[1] * inner[i][j], hf[2])]]

\* mutant: the source term reads the cell after its diffusion update
AddSource_PostDiffusion(change, A, m, hf) ==
    LET inner == Inner(A)
        mi    == MaskInner(m)
    IN  [i \in DOMAIN change |->
            [j \in DOMAIN change[i] |->
                IF mi[i][j]
                THEN change[i][j]
                     + RoundDiv(hf[1] * (inner[i][j] + change[i][j]), hf[2])
                ELSE change[i][j]]]

\* change[mask_inner] += heating_factor_per_step * u_inner[mask_inner]
AddSource(change, A, m, hf) ==
    LET inner == Inner(A)
        mi    == MaskInner(m)
    IN  [i \in DOMAIN change |->
            [j \in DOMAIN change[i] |->
                IF mi[i][j]
                THEN change[i][j] + RoundDiv(hf[1] * inner[i][j], hf[2])
                ELSE change[i][j]]]

\* u[1:-1, 1:-1] += change
UpdateInner(A, change) ==
    LET inner == Inner(A)
    IN  Assign(A, InnerSlice[1], InnerSlice[2], InnerSlice[3], InnerSlice[4],
               ny, nx,
               [i \in DOMAIN inner |->
                   [j \in DOMAIN inner[i] |-> inner[i][j] + change[i][j]]])

\* the cells of the field that u[1:-1, 1:-1] += change writes with a source
\* term: entry (i, j) of the interior view is cell (i + 1, j + 1)
SourceCells(m) ==
    LET mi == MaskInner(m)
    IN  {<<SliceStart(InnerSlice[1], ny) + ij[1],
           SliceStart(InnerSlice[3], nx) + ij[2]>> :
            ij \in {ij \in (0..(ny - 1)) \X (0..(nx - 1)) :
                      ij[1] \in DOMAIN mi /\ ij[2] \in DOMAIN mi[ij[1]]
                      /\ mi[ij[1]][ij[2]]}}

\* The outcome of one step() of a solver whose field is A, sensor mask sm,
\* radiator mask m (bound tells whether mask_inner exists), cell count
\* count, heating factor hf and energy counter energy.  Reading
\* self.mask_inner before add_radiator has ever bound it raises
\* AttributeError, after the Laplacian has been computed and before anything
\* is written.
StepOf(A, sm, m, bound, count, hf, energy) ==
    LET fires  == Fires(A, sm, count)
        change == DiffusionChange(A)
    IN  IF fires /\ ~bound
        THEN [u |-> A, energy |-> energy, exc |-> "AttributeError",
              fired |-> FALSE, heated |-> {}]
        ELSE LET ch == IF fires THEN AddSource(change, A, m, hf) ELSE change
                 bc == ApplyBoundaryConditions(UpdateInner(A, ch))
             IN  [u      |-> bc.u,
                  energy |-> IF fires THEN energy + P * dt ELSE energy,
                  exc    |-> bc.exc,
                  fired  |-> fires,
                  heated |-> IF fires THEN SourceCells(m) ELSE {}]

\* the outcome of one step() in the current state
StepOutcome ==
    StepOf(u, sensor_mask, radiator_mask, mask_inner_bound,
           active_cells_count, heating_factor_per_step, total_energy)

---------------------------------------------------------------------------
(* Configurations and arguments the operations are called with *)

\* a 5 x 5 grid (dx = 2) with diffusion_factor = 1/4 and the default
\* conductivities
BaseConfig ==
    [Lx |-> 10, Ly |-> 10, dx |-> 2, dt |-> 1, alpha |-> 1,
     u_outdoor |-> 253, power |-> 20, pressure |-> 10, r_gas |-> 3,
     c_specific |-> 10, thermostat_temp |-> 254, u_start |-> 253]

\* valid configurations: a cold room just below the setpoint, a warm room
\* exactly at the setpoint, and a warm room with poorly conducting walls
ValidConfigs ==
    { BaseConfig,
      [BaseConfig EXCEPT !["thermostat_temp"] = 293, !["u_start"] = 293],
      [c \in DOMAIN BaseConfig \cup {"lambda_wall", "lambda_window"} |->
          IF c = "lambda_wall" THEN 13
          ELSE IF c = "lambda_window" THEN 39
          ELSE IF c = "u_start" THEN 293
          ELSE IF c = "thermostat_temp" THEN 290
          ELSE BaseConfig[c]] }

\* configurations the design calls invalid
InvalidConfigs ==
    { [BaseConfig EXCEPT !["dt"] = 0],
      [BaseConfig EXCEPT !["dt"] = -1],
      [BaseConfig EXCEPT !["dx"] = 0],
      [BaseConfig EXCEPT !["dx"] = -2],
      [BaseConfig EXCEPT !["Lx"] = 0],
      [BaseConfig EXCEPT !["Lx"] = -10],
      [BaseConfig EXCEPT !["Lx"] = 4],
      [BaseConfig EXCEPT !["Lx"] = 2],
      [BaseConfig EXCEPT !["Ly"] = 4] }

\* add_radiator arguments <<x_start, y_start, width, height>>: inside the
\* room, overlapping one another, on the domain edge, of width 0, beyond
\* the far edge, at negative coordinates, and on half cells
RadiatorArgs ==
    { <<2, 2, 2, 2>>, <<2, 2, 4, 2>>, <<0, 0, 4, 4>>, <<6, 4, 8, 8>>,
      <<2, 2, 0, 2>>, <<12, 2, 2, 2>>, <<2, 12, 2, 2>>,
      <<-6, 2, 4, 2>>, <<1, 3, 2, 4>> }

\* set_sensor_region arguments <<x_start, x_end>>
SensorArgs ==
    { <<0, 10>>, <<2, 8>>, <<4, 4>>, <<-4, -2>>, <<1, 3>>, <<6, 14>> }

---------------------------------------------------------------------------
(* History kept for the properties *)

Last(op, args, exc, fired, heated) ==
    [op |-> op, args |-> args, exc |-> exc, fired |-> fired, heated |-> heated]

\* the cells of the field inside the index rectangle
\* [iy_start, iy_end) x [ix_start, ix_end) of an add_radiator call
RectCells(x_start, y_start, width, height) ==
    {rc \in (0..(ny - 1)) \X (0..(nx - 1)) :
        /\ PyRound(y_start, dx) <= rc[1]
        /\ rc[1] < Min(PyRound(y_start + height, dx), ny)
        /\ PyRound(x_start, dx) <= rc[2]
        /\ rc[2] < Min(PyRound(x_start + width, dx), nx)}

NoProbe == [args |-> <<>>, mask |-> <<>>, at |-> 0]

RunIdle == [pc |-> "idle", steps |-> 0, i |-> 0, calls |-> 0]

---------------------------------------------------------------------------
(* The state machine *)

\* mutant: the default sensor region is the interior only
InitSensorMask_Interior ==
    Fill(Full(ny, nx, FALSE), 1, -1, 1, -1, ny, nx, TRUE)

\* self.sensor_mask = np.ones((self.ny, self.nx), dtype=bool)
InitSensorMask == Full(ny, nx, TRUE)

\* the script has not run
MainIdle == [h |-> 0, dt |-> 0, alpha |-> 0, report |-> "none"]

\* __init__(config)
InitFrom(configs) ==
    /\ config \in configs
    /\ constructed = Construct(config)
    /\ IF constructed = "ok"
       THEN /\ u = Full(ny, nx, config["u_start"])
            /\ radiator_mask = Full(ny, nx, FALSE)
            /\ sensor_mask = InitSensorMask
       ELSE /\ u = <<>>
            /\ radiator_mask = <<>>
            /\ sensor_mask = <<>>
    /\ mask_inner_bound = FALSE
    /\ heating_factor_per_step = <<0, 1>>
    /\ active_cells_count = 0
    /\ total_energy = 0
    /\ window_left = FALSE
    /\ window_right = FALSE
    /\ run = RunIdle
    /\ last = Last("init", <<>>,
                   IF constructed = "ok" THEN "none" ELSE constructed,
                   FALSE, {})
    /\ covered = {}
    /\ probe = NoProbe
    /\ called = {}
    /\ nops = 0

\* no second solver exists
TwinIdle == [pc |-> "none"]

Init == InitFrom(ValidConfigs) /\ main = MainIdle /\ twin = TwinIdle

InitCfg ==
    InitFrom(ValidConfigs \cup InvalidConfigs) /\ main = MainIdle /\ twin = TwinIdle

\* a public method can be called: the solver exists, no run() is executing
Ready == constructed = "ok" /\ run.pc # "loop" /\ nops < MaxOps

SetWindows(left, right) ==
    /\ Ready
    /\ window_left' = left
    /\ window_right' = right
    /\ last' = Last("set_windows", <<left, right>>, "none", FALSE, {})
    /\ called' = called \cup {"set_windows"}
    /\ nops' = nops + 1
    /\ UNCHANGED <<twin, main, config, constructed, u, radiator_mask, mask_inner_bound,
                   active_cells_count, heating_factor_per_step, total_energy,
                   sensor_mask, run, covered, probe>>

\* clear_radiators that also resets the field to the outdoor temperature
ClearRadiators_ResetField ==
    /\ Ready
    /\ radiator_mask' = ClearMask(radiator_mask)
    /\ active_cells_count' = 0
    /\ heating_factor_per_step' = <<0, 1>>
    /\ u' = Full(ny, nx, u_outdoor)
    /\ covered' = {}
    /\ last' = Last("clear_radiators", <<>>, "none", FALSE, {})
    /\ called' = called \cup {"clear_radiators"}
    /\ nops' = nops + 1
    /\ UNCHANGED <<twin, main, config, constructed, mask_inner_bound,
                   total_energy, sensor_mask, window_left, window_right,
                   run, probe>>

ClearRadiators ==
    /\ Ready
    /\ radiator_mask' = ClearMask(radiator_mask)
    /\ active_cells_count' = 0
    /\ heating_factor_per_step' = <<0, 1>>
    /\ covered' = {}
    /\ last' = Last("clear_radiators", <<>>, "none", FALSE, {})
    /\ called' = called \cup {"clear_radiators"}
    /\ nops' = nops + 1
    /\ UNCHANGED <<twin, main, config, constructed, u, mask_inner_bound, total_energy,
                   sensor_mask, window_left, window_right, run, probe>>

AddRadiator(x_start, y_start, width, height) ==
    /\ Ready
    /\ radiator_mask' = AddRadiatorMask(radiator_mask, x_start, y_start,
                                        width, height)
    /\ mask_inner_bound' = TRUE
    /\ active_cells_count' = CountActive(radiator_mask')
    /\ heating_factor_per_step' =
           HeatingFactor(active_cells_count', heating_factor_per_step)
    /\ covered' = covered \cup RectCells(x_start, y_start, width, height)
    /\ last' = Last("add_radiator", <<x_start, y_start, width, height>>,
                    "none", FALSE, {})
    /\ called' = called \cup {"add_radiator"}
    /\ nops' = nops + 1
    /\ UNCHANGED <<twin, main, config, constructed, u, total_energy, sensor_mask,
                   window_left, window_right, run, probe>>

SetSensorRegion(x_start, x_end) ==
    /\ Ready
    /\ sensor_mask' = SetSensorMask(sensor_mask, x_start, x_end)
    /\ probe' \in IF probe = NoProbe
                  THEN {NoProbe, [args |-> <<x_start, x_end>>,
                                  mask |-> sensor_mask', at |-> nops + 1]}
                  ELSE {probe}
    /\ last' = Last("set_sensor_region", <<x_start, x_end>>, "none", FALSE, {})
    /\ called' = called \cup {"set_sensor_region"}
    /\ nops' = nops + 1
    /\ UNCHANGED <<twin, main, config, constructed, u, radiator_mask, mask_inner_bound,
                   active_cells_count, heating_factor_per_step, total_energy,
                   window_left, window_right, run, covered>>

Step ==
    /\ Ready
    /\ \E o \in {StepOutcome} :
           /\ u' = o.u
           /\ total_energy' = o.energy
           /\ last' = Last("step", <<>>, o.exc, o.fired, o.heated)
    /\ called' = called \cup {"step"}
    /\ nops' = nops + 1
    /\ UNCHANGED <<twin, main, config, constructed, radiator_mask, mask_inner_bound,
                   active_cells_count, heating_factor_per_step, sensor_mask,
                   window_left, window_right, run, covered, probe>>

\* run(steps) is called: the progress widgets are created, the loop starts
RunCall(steps) ==
    /\ Ready
    /\ run' = [pc |-> "loop", steps |-> steps, i |-> 0, calls |-> 0]
    /\ last' = Last("run", <<steps>>, "none", FALSE, {})
    /\ called' = called \cup {"run"}
    /\ nops' = nops + 1
    /\ UNCHANGED <<twin, main, config, constructed, u, radiator_mask, mask_inner_bound,
                   active_cells_count, heating_factor_per_step, total_energy,
                   sensor_mask, window_left, window_right, covered, probe>>

\* the exception one pass of run's loop body ends with, after its step():
\* i % (steps // 10) divides by zero when steps < 10
RunBodyExc(stepExc, steps) ==
    IF stepExc # "none" THEN stepExc
    ELSE IF steps \div 10 = 0 THEN "ZeroDivisionError"
    ELSE "none"

\* one pass of "for i in range(steps)": step(), then the progress update
RunIter ==
    /\ constructed = "ok"
    /\ run.pc = "loop"
    /\ run.i < run.steps
    /\ \E o \in {StepOutcome} : \E exc \in {RunBodyExc(o.exc, run.steps)} :
           /\ u' = o.u
           /\ total_energy' = o.energy
           /\ last' = Last("run", <<run.steps>>, exc, o.fired, o.heated)
           /\ run' = [run EXCEPT !.calls = @ + 1,
                                 !.i = IF exc = "none" THEN @ + 1 ELSE @,
                                 !.pc = IF exc = "none" THEN "loop" ELSE "raised"]
    /\ UNCHANGED <<twin, main, config, constructed, radiator_mask, mask_inner_bound,
                   active_cells_count, heating_factor_per_step, sensor_mask,
                   window_left, window_right, covered, probe, nops,
                   called>>

\* the loop is exhausted: the bar is set to 100 and run returns
RunReturn ==
    /\ constructed = "ok"
    /\ run.pc = "loop"
    /\ run.i >= run.steps
    /\ run' = [run EXCEPT !.pc = "returned"]
    /\ UNCHANGED <<twin, main, config, constructed, u, radiator_mask, mask_inner_bound,
                   active_cells_count, heating_factor_per_step, total_energy,
                   sensor_mask, window_left, window_right, last, covered,
                   probe, nops,
                   called>>

Next ==
    \/ \E left, right \in BOOLEAN : SetWindows(left, right)
    \/ ClearRadiators
    \/ \E a \in RadiatorArgs : AddRadiator(a[1], a[2], a[3], a[4])
    \/ \E s \in SensorArgs : SetSensorRegion(s[1], s[2])
    \/ Step

Spec == Init /\ [][Next]_vars

\* the solver driven through run()
NextRun ==
    \/ \E a \in RadiatorArgs : AddRadiator(a[1], a[2], a[3], a[4])
    \/ \E steps \in 0..MaxRunSteps : RunCall(steps)
    \/ RunIter
    \/ RunReturn

SpecRun == Init /\ [][NextRun]_vars

\* the solver constructed from valid and invalid configurations alike
SpecCfg == InitCfg /\ [][Next]_vars

---------------------------------------------------------------------------
(* The stability check of the script src/notebooks/main.py *)

\* the factor 0.34 of the check, in 1/100
stability_factor == 34

\* dt > 0.34*h**2, with dt in 1/100 s and h in metres; alpha is not read
Unstable(h, dt100) == dt100 > stability_factor * h * h

\* what the check prints
StabilityReport(h, dt100) ==
    IF Unstable(h, dt100) THEN "unstable" ELSE "ok"

\* grid steps h, time steps dt (1/100 s) and diffusivities alpha (1/100)
\* the script is run with
MainInputs ==
    [h : {1, 2, 3},
     dt : {8, 9, 30, 34, 35, 100, 108, 109, 120, 136, 137, 306, 307},
     alpha : {50, 100, 125, 200},
     report : {"none"}]

\* the script up to its stability check: h, dt and alpha are set
InitMain == InitFrom({BaseConfig}) /\ main \in MainInputs /\ twin = TwinIdle

\* lines 56-60 of the script
StabilityCheck ==
    /\ main.report = "none"
    /\ main' = [main EXCEPT !.report = StabilityReport(main.h, main.dt)]
    /\ UNCHANGED <<config, constructed, u, radiator_mask, mask_inner_bound,
                   active_cells_count, heating_factor_per_step, total_energy,
                   sensor_mask, window_left, window_right, run, last, covered,
                   probe, called, nops, twin>>

NextMain == StabilityCheck

SpecMain == InitMain /\ [][NextMain]_vars

---------------------------------------------------------------------------
(* Two solvers built from the same configuration, one with its radiator at
   x_start, the other with it at the mirrored position Lx - x_start - width;
   no windows, the default sensor region, the same number of steps *)

\* the second solver as __init__ leaves it
TwinConstructed ==
    [pc |-> "ready",
     u |-> Full(ny, nx, config["u_start"]),
     radiator_mask |-> Full(ny, nx, FALSE),
     mask_inner_bound |-> FALSE,
     active_cells_count |-> 0,
     heating_factor_per_step |-> <<0, 1>>,
     total_energy |-> 0,
     args |-> <<>>,
     steps |-> 0]

InitTwin == InitFrom(ValidConfigs) /\ main = MainIdle /\ twin = TwinConstructed

\* add_radiator(x_start, ...) on the first solver and
\* add_radiator(Lx - x_start - width, ...) on the second, once
TwinAddRadiator(x_start, y_start, width, height) ==
    /\ twin.pc = "ready"
    /\ twin.args = <<>>
    /\ radiator_mask' = AddRadiatorMask(radiator_mask, x_start, y_start,
                                        width, height)
    /\ mask_inner_bound' = TRUE
    /\ active_cells_count' = CountActive(radiator_mask')
    /\ heating_factor_per_step' =
           HeatingFactor(active_cells_count', heating_factor_per_step)
    /\ \E m \in {AddRadiatorMask(twin.radiator_mask, Lx - x_start - width,
                                  y_start, width, height)} :
           twin' = [twin EXCEPT
                       !.radiator_mask = m,
                       !.mask_inner_bound = TRUE,
                       !.active_cells_count = CountActive(m),
                       !.heating_factor_per_step =
                           HeatingFactor(CountActive(m), @),
                       !.args = <<x_start, y_start, width, height>>]
    /\ UNCHANGED <<main, config, constructed, u, total_energy, sensor_mask,
                   window_left, window_right, run, last, covered, probe,
                   called, nops>>

\* step() on both solvers
TwinStep ==
    /\ twin.pc = "ready"
    /\ twin.steps < MaxTwinSteps
    /\ \E o \in {StepOutcome} :
           /\ u' = o.u
           /\ total_energy' = o.energy
    /\ \E o \in {StepOf(twin.u, sensor_mask, twin.radiator_mask,
                          twin.mask_inner_bound, twin.active_cells_count,
                          twin.heating_factor_per_step, twin.total_energy)} :
           twin' = [twin EXCEPT !.u = o.u,
                                !.total_energy = o.energy,
                                !.steps = @ + 1]
    /\ UNCHANGED <<main, config, constructed, radiator_mask, mask_inner_bound,
                   active_cells_count, heating_factor_per_step, sensor_mask,
                   window_left, window_right, run, last, covered, probe,
                   called, nops>>

NextTwin ==
    \/ \E a \in RadiatorArgs : TwinAddRadiator(a[1], a[2], a[3], a[4])
    \/ TwinStep

SpecTwin == InitTwin /\ [][NextTwin]_vars

---------------------------------------------------------------------------
(* Repeated step() calls on a solver without radiator *)

\* rooms colder than, as cold as and warmer than the outside, with well and
\* with poorly conducting walls, at the diffusion factor alpha*dt/dx**2 = 1/4;
\* and a warm room stepped at the diffusion factor 1/3
LongRunConfigs ==
    {[BaseConfig EXCEPT !["u_start"] = s] : s \in {53, 213, 253, 293, 453}}
    \cup {[c \in DOMAIN BaseConfig \cup {"lambda_wall"} |->
              IF c = "lambda_wall" THEN 13
              ELSE IF c = "u_start" THEN s
              ELSE BaseConfig[c]] : s \in {53, 213, 293, 453}}
    \cup {[BaseConfig EXCEPT !["Lx"] = 15, !["Ly"] = 15, !["dx"] = 3,
                             !["dt"] = 3, !["u_start"] = 293]}

InitLongRun == InitFrom(LongRunConfigs) /\ main = MainIdle /\ twin = TwinIdle

\* the field has not left the range the run is followed in; a run that leaves
\* it keeps growing in the code until the doubles overflow to inf and nan
InRange ==
    \A i \in DOMAIN u : \A j \in DOMAIN u[i] :
        /\ u[i][j] - u_outdoor <= MaxExcursion
        /\ u_outdoor - u[i][j] <= MaxExcursion

\* one more step() of a run of any length
StepAgain ==
    /\ constructed = "ok"
    /\ InRange
    /\ \E o \in {StepOutcome} :
           /\ u' = o.u
           /\ total_energy' = o.energy
           /\ last' = Last("step", <<>>, o.exc, o.fired, o.heated)
    /\ called' = called \cup {"step"}
    /\ UNCHANGED <<main, twin, config, constructed, radiator_mask,
                   mask_inner_bound, active_cells_count,
                   heating_factor_per_step, sensor_mask, window_left,
                   window_right, run, covered, probe, nops>>

NextLongRun == StepAgain

\* step() is called again and again
SpecLongRun == InitLongRun /\ [][NextLongRun]_vars /\ WF_vars(StepAgain)

---------------------------------------------------------------------------
(* Windows on rooms of several heights *)

\* warm rooms of 3, 4, 5 and 7 rows, with the default conductivities and
\* with poorly conducting walls and windows (beta_wall = 1, beta_window = 3)
WindowConfigs ==
    {[BaseConfig EXCEPT !["Ly"] = l, !["u_start"] = 293,
                        !["thermostat_temp"] = 293] : l \in {6, 8, 10, 14}}
    \cup {[c \in DOMAIN BaseConfig \cup {"lambda_wall", "lambda_window"} |->
              IF c = "lambda_wall" THEN 13
              ELSE IF c = "lambda_window" THEN 39
              ELSE IF c = "Ly" THEN l
              ELSE IF c \in {"u_start", "thermostat_temp"} THEN 293
              ELSE BaseConfig[c]] : l \in {6, 8, 10, 14}}

InitWindows == InitFrom(WindowConfigs) /\ main = MainIdle /\ twin = TwinIdle

NextWindows ==
    \/ \E left, right \in BOOLEAN : SetWindows(left, right)
    \/ Step

SpecWindows == InitWindows /\ [][NextWindows]_vars

---------------------------------------------------------------------------
(* Runs of ten steps with sensor regions that select no cell *)

\* radiators inside the room and on its edge
SensorRunRadiators == {<<2, 2, 2, 2>>, <<0, 0, 4, 4>>}

\* sensor regions: empty (x_start = x_end), outside the domain, and the
\* middle columns
SensorRunRegions == {<<4, 4>>, <<12, 14>>, <<2, 8>>}

NextSensorRun ==
    \/ \E a \in SensorRunRadiators : AddRadiator(a[1], a[2], a[3], a[4])
    \/ \E s \in SensorRunRegions : SetSensorRegion(s[1], s[2])
    \/ RunCall(10)
    \/ RunIter
    \/ RunReturn

SpecSensorRun == Init /\ [][NextSensorRun]_vars

---------------------------------------------------------------------------
(* Windows on grids of every height from 2 to MaxRows rows *)

\* warm rooms three cells wide and 2 to MaxRows cells high, with well and
\* with poorly conducting walls and windows
SpanConfigs ==
    {[c \in DOMAIN BaseConfig \cup {"lambda_wall", "lambda_window"} |->
         IF c = "lambda_wall" THEN l[1]
         ELSE IF c = "lambda_window" THEN l[2]
         ELSE IF c = "Lx" THEN 6
         ELSE IF c = "Ly" THEN 2 * n
         ELSE IF c \in {"u_start", "thermostat_temp"} THEN 293
         ELSE BaseConfig[c]] :
        l \in {<<lambda_wall_default, lambda_window_default>>, <<13, 39>>},
        n \in 2..MaxRows}

InitSpan == InitFrom(SpanConfigs) /\ main = MainIdle /\ twin = TwinIdle

NextSpan ==
    \/ \E left, right \in BOOLEAN : SetWindows(left, right)
    \/ Step

SpecSpan == InitSpan /\ [][NextSpan]_vars

---------------------------------------------------------------------------
(* step() in floating-point arithmetic, without radiator: every operation
   of the expressions in __init__, step and _apply_boundary_conditions
   rounds its result to the nearest number with a significand of Precision
   bits, halves to even, as IEEE 754 arithmetic does with 53 bits.  A number
   x is held as the integer x * Scale; in this part of the model the field
   u holds such integers. *)

Scale == 2 ^ ScaleBits

\* the exponent of the last place of a number whose integer part is q
RECURSIVE Exponent(_)
Exponent(q) == IF q < 2 ^ Precision THEN 0 ELSE 1 + Exponent(q \div 2)

\* the distance between x and the next floating-point number away from zero
Ulp(x) == 2 ^ Exponent(IF x < 0 THEN -x ELSE x)

\* a / b (b > 0) rounded to the nearest floating-point number
FlRound(a, b) ==
    LET aa == IF a < 0 THEN -a ELSE a
        st == 2 ^ Exponent(aa \div b)
        r  == PyRound(aa, b * st) * st
    IN  IF a < 0 THEN -r ELSE r

\* the floating-point number of the integer k
ToFl(k) == FlRound(k * Scale, 1)

FlAdd(x, y) == FlRound(x + y, 1)

FlSub(x, y) == FlRound(x - y, 1)

FlMul(x, y) == FlRound(x * y, Scale)

FlDiv(x, y) == FlRound(x * Scale, y)

\* (lambda_material / lambda_air) * dx
FlBeta(lambda) == FlMul(FlRound(lambda * Scale, lambda_air), ToFl(dx))

\* mutant: twice the diffusion factor
FlDiffusionFactor_Double ==
    FlMul(ToFl(2),
          FlDiv(FlMul(ToFl(alpha), ToFl(dt)), FlMul(ToFl(dx), ToFl(dx))))

\* (self.alpha * self.dt) / (self.dx**2)
FlDiffusionFactor ==
    FlDiv(FlMul(ToFl(alpha), ToFl(dt)), FlMul(ToFl(dx), ToFl(dx)))

\* (v + beta * self.u_outdoor) / (1 + beta)
FlRobin(v, beta) ==
    FlDiv(FlAdd(v, FlMul(beta, ToFl(u_outdoor))), FlAdd(ToFl(1), beta))

\* diffusion_factor * laplacian_sum at the interior cell (i, j)
FlChange(A, i, j) ==
    FlMul(FlDiffusionFactor,
          FlSub(FlAdd(FlAdd(FlAdd(A[i - 1][j], A[i + 1][j]), A[i][j - 1]),
                      A[i][j + 1]),
                FlMul(ToFl(4), A[i][j])))

\* u[1:-1, 1:-1] += change
FlUpdateInner(A) ==
    [i \in 0..(ny - 1) |->
        [j \in 0..(nx - 1) |->
            IF i \in 1..(ny - 2) /\ j \in 1..(nx - 2)
            THEN FlAdd(A[i][j], FlChange(A, i, j))
            ELSE A[i][j]]]

\* _apply_boundary_conditions: left column, right column, bottom row, top
\* row, then the window overrides
FlBoundary(A, left, right) ==
    LET bw == FlBeta(lambda_wall)
        bg == FlBeta(lambda_window)
        B1 == [i \in 0..(ny - 1) |-> [j \in 0..(nx - 1) |->
                  IF j = 0 THEN FlRobin(A[i][1], bw) ELSE A[i][j]]]
        B2 == [i \in 0..(ny - 1) |-> [j \in 0..(nx - 1) |->
                  IF j = nx - 1 THEN FlRobin(B1[i][nx - 2], bw) ELSE B1[i][j]]]
        B3 == [i \in 0..(ny - 1) |-> [j \in 0..(nx - 1) |->
                  IF i = ny - 1 THEN FlRobin(B2[ny - 2][j], bw) ELSE B2[i][j]]]
        B4 == [i \in 0..(ny - 1) |-> [j \in 0..(nx - 1) |->
                  IF i = 0 THEN FlRobin(B3[1][j], bw) ELSE B3[i][j]]]
        inSpan(i) == window_y_start <= i /\ i < window_y_end
    IN  [i \in 0..(ny - 1) |-> [j \in 0..(nx - 1) |->
            IF left /\ j = 0 /\ inSpan(i) THEN FlRobin(B4[i][1], bg)
            ELSE IF right /\ j = nx - 1 /\ inSpan(i)
                 THEN FlRobin(B4[i][nx - 2], bg)
            ELSE B4[i][j]]]

\* the field after one step() of a solver without radiator cells
FlStep(A) == FlBoundary(FlUpdateInner(A), window_left, window_right)

\* rooms as cold as, warmer and colder than the outside behind walls of
\* three conductivities, at the diffusion factor 1/4; and a warm room
\* stepped at the diffusion factor 1/3
FloatConfigs ==
    {[c \in DOMAIN BaseConfig \cup {"lambda_wall"} |->
         IF c = "lambda_wall" THEN l
         ELSE IF c = "u_outdoor" THEN o
         ELSE IF c = "u_start" THEN o + d
         ELSE BaseConfig[c]] :
        l \in {500, 200, 100}, o \in {253, 270}, d \in {-40, 0, 22}}
    \cup {[BaseConfig EXCEPT !["Lx"] = 15, !["Ly"] = 15, !["dx"] = 3,
                             !["dt"] = 3, !["u_start"] = 293]}

\* __init__(config): self.u = np.ones((self.ny, self.nx)) * config["u_start"]
InitFloat ==
    /\ config \in FloatConfigs
    /\ constructed = Construct(config)
    /\ u = Full(ny, nx, ToFl(config["u_start"]))
    /\ radiator_mask = Full(ny, nx, FALSE)
    /\ sensor_mask = InitSensorMask
    /\ mask_inner_bound = FALSE
    /\ heating_factor_per_step = <<0, 1>>
    /\ active_cells_count = 0
    /\ total_energy = 0
    /\ window_left = FALSE
    /\ window_right = FALSE
    /\ run = RunIdle
    /\ last = Last("init", <<>>, "none", FALSE, {})
    /\ covered = {}
    /\ probe = NoProbe
    /\ called = {}
    /\ nops = 0
    /\ main = MainIdle
    /\ twin = TwinIdle

\* step() with active_cells_count = 0: no source term, no energy
FloatStep ==
    /\ constructed = "ok"
    /\ nops < MaxFloatSteps
    /\ \E v \in {FlStep(u)} : u' = v
    /\ last' = Last("step", <<>>, "none", FALSE, {})
    /\ called' = called \cup {"step"}
    /\ nops' = nops + 1
    /\ UNCHANGED <<twin, main, config, constructed, radiator_mask,
                   mask_inner_bound, active_cells_count,
                   heating_factor_per_step, total_energy, sensor_mask,
                   window_left, window_right, run, covered, probe>>

NextFloat ==
    \/ \E left, right \in BOOLEAN : SetWindows(left, right)
    \/ FloatStep

SpecFloat == InitFloat /\ [][NextFloat]_vars

---------------------------------------------------------------------------
(* Vocabulary of the properties *)

AllCells == (0..(ny - 1)) \X (0..(nx - 1))

BoundaryCells ==
    {rc \in AllCells :
        rc[1] = 0 \/ rc[1] = ny - 1 \/ rc[2] = 0 \/ rc[2] = nx - 1}

InteriorCells == AllCells \ BoundaryCells

\* the cells a boolean ny x nx mask selects
Selected(M) == {rc \in AllCells : M[rc[1]][rc[2]]}

RECURSIVE SumOver(_, _)
SumOver(A, S) ==
    IF S = {} THEN 0
    ELSE LET c == CHOOSE c \in S : TRUE
         IN  A[c[1]][c[2]] + SumOver(A, S \ {c})

\* the mean of field A over the non-empty cell set S is strictly below t
MeanBelow(A, S, t) == SumOver(A, S) < t * Cardinality(S)

\* the cells the thermostat senses: the sensor region, or the whole field
\* when the region is empty
SensedCells ==
    IF Selected(sensor_mask) # {} THEN Selected(sensor_mask) ELSE AllCells

\* this transition is a call of the public method op
IsCall(op) == nops' = nops + 1 /\ last'.op = op

\* this transition executes step(), called directly or by run()
StepTaken == IsCall("step") \/ run'.calls = run.calls + 1

---------------------------------------------------------------------------
(* C1 *)

\* C1: over any sequence of step() calls total_energy never decreases; one
\* step() adds exactly power*dt when the mean of the pre-step field over the
\* sensed cells is strictly below thermostat_temp and active_cells_count > 0,
\* and exactly 0 otherwise, however many cells are heated.
C1_EnergyAccounting ==
    [][ /\ total_energy' >= total_energy
        /\ IsCall("step") =>
              total_energy' = total_energy +
                  (IF /\ MeanBelow(u, SensedCells, thermostat_setting)
                      /\ active_cells_count > 0
                   THEN P * dt ELSE 0) ]_vars

\* a step that fired and heated several cells at once
C1_Witness ==
    /\ last.op = "step"
    /\ last.fired
    /\ Cardinality(last.heated) >= 2
    /\ total_energy = P * dt

---------------------------------------------------------------------------
(* C3 *)

\* C3: after any sequence of add_radiator calls, rectangles overlapping or
\* lying on the domain edge included, the mask that heats (mask_inner, the
\* cells of radiator_mask it shows) contains no cell of row 0, row ny-1,
\* column 0 or column nx-1, and no step() adds the source term to such a cell.
C3_NoBoundaryHeating ==
    /\ MaskInnerCells(radiator_mask) \cap BoundaryCells = {}
    /\ last.heated \cap BoundaryCells = {}

\* a step fired while a rectangle on the domain edge had been added
C3_Witness ==
    /\ last.op = "step"
    /\ last.heated # {}
    /\ Selected(radiator_mask) \cap BoundaryCells # {}

---------------------------------------------------------------------------
(* C2 *)

\* C2: for every integer steps >= 0, run(steps) calls step() exactly steps
\* times in sequence and then returns normally; nothing but completing the
\* count ends the loop.
C2_RunCompletes ==
    /\ run.pc # "raised"
    /\ run.pc = "returned" => run.calls = run.steps

---------------------------------------------------------------------------
(* C4 *)

\* the rectangle of an add_radiator call has width 0 or lies entirely
\* outside the domain [0, Lx) x [0, Ly)
Degenerate(a) ==
    \/ a[3] = 0
    \/ a[1] + a[3] <= 0
    \/ a[1] >= Lx
    \/ a[2] + a[4] <= 0
    \/ a[2] >= Ly

\* C4: on a solver with no radiator cells yet, add_radiator with width 0 or
\* with a rectangle entirely outside the domain (on any side, negative
\* coordinates included) leaves active_cells_count = 0, and every later
\* step() leaves total_energy unchanged.
C4_DegenerateRadiator ==
    [][ /\ (IsCall("add_radiator") /\ active_cells_count = 0
            /\ Degenerate(last'.args)) => active_cells_count' = 0
        /\ (IsCall("step") /\ covered = {}) => total_energy' = total_energy
      ]_vars

---------------------------------------------------------------------------
(* C5 *)

\* the configuration is one the design rejects: a non-positive dx, dt, Lx
\* or Ly, or a grid with no interior cell
InvalidConfig(c) ==
    \/ c["dx"] <= 0
    \/ c["dt"] <= 0
    \/ c["Lx"] <= 0
    \/ c["Ly"] <= 0
    \/ PyRound(c["Lx"], c["dx"]) < 3
    \/ PyRound(c["Ly"], c["dx"]) < 3

\* C5: constructing a solver from a configuration with non-positive dx, dt,
\* Lx or Ly, or with nx < 3 or ny < 3, fails at construction, so no step()
\* ever executes on such a configuration.
C5_ConfigError ==
    InvalidConfig(config) => (constructed # "ok" /\ "step" \notin called)

---------------------------------------------------------------------------
(* C6 *)

\* the indices of an axis of length n that the Python slice [a:b] selects
PySliceSet(a, b, n) ==
    {k \in 0..(n - 1) :
        /\ k >= (IF a < 0 THEN a + n ELSE a)
        /\ k <  (IF b < 0 THEN b + n ELSE b)}

\* C6 as stated: set_sensor_region(x_start, x_end) leaves exactly the
\* interior cells (boundary rows and boundary columns excluded) whose column
\* lies in [round(x_start/dx), min(round(x_end/dx), nx)) in the sensor mask,
\* and never a cell of column 0, column nx-1, row 0 or row ny-1.
C6_Original ==
    last.op = "set_sensor_region" =>
        /\ Selected(sensor_mask) =
              {rc \in InteriorCells :
                  /\ PyRound(last.args[1], dx) <= rc[2]
                  /\ rc[2] < Min(PyRound(last.args[2], dx), nx)}
        /\ Selected(sensor_mask) \cap BoundaryCells = {}

\* C6 as amended: set_sensor_region(x_start, x_end) empties the sensor mask
\* and then marks exactly the cells of the rows 1..ny-2 whose column lies in
\* the slice [round(x_start/dx) : min(round(x_end/dx), nx)] (a negative bound
\* counts from nx), columns 0 and nx-1 included when the slice holds them;
\* no cell of row 0 or row ny-1 is in the mask once it has been called.
C6_SensorRegion ==
    /\ last.op = "set_sensor_region" =>
          Selected(sensor_mask) =
              {rc \in AllCells :
                  /\ 1 <= rc[1] /\ rc[1] <= ny - 2
                  /\ rc[2] \in PySliceSet(PyRound(last.args[1], dx),
                                          Min(PyRound(last.args[2], dx), nx),
                                          nx)}
    /\ "set_sensor_region" \in called =>
          \A rc \in Selected(sensor_mask) : rc[1] # 0 /\ rc[1] # ny - 1

\* a call whose region holds cells of column 0 and of column nx-1
C6_Witness ==
    /\ last.op = "set_sensor_region"
    /\ sensor_mask[1][0]
    /\ sensor_mask[1][nx - 1]
    /\ ~sensor_mask[0][1]

---------------------------------------------------------------------------
(* C7 *)

\* C7 as stated: on a fresh solver on which set_sensor_region has never been
\* called the sensor mask selects exactly the interior cells.
C7_Original ==
    "set_sensor_region" \notin called => Selected(sensor_mask) = InteriorCells

\* C7 as amended: on a solver on which set_sensor_region has never been
\* called the sensor mask selects every cell of the field, boundary cells
\* included, so the thermostat senses the mean of the whole field: a step()
\* fires exactly when that mean is below the setpoint and cells are active.
C7_DefaultSensor ==
    /\ []("set_sensor_region" \notin called => Selected(sensor_mask) = AllCells)
    /\ [][ (IsCall("step") /\ "set_sensor_region" \notin called) =>
              (last'.fired <=>
                  (/\ MeanBelow(u, AllCells, thermostat_setting)
                   /\ active_cells_count > 0)) ]_vars

\* a room that started above the setpoint fired with the default mask: only
\* the cooled boundary cells brought the sensed mean below the setpoint
C7_Witness ==
    /\ "set_sensor_region" \notin called
    /\ last.op = "step"
    /\ last.fired
    /\ config["u_start"] > thermostat_setting
    /\ ~MeanBelow(u, InteriorCells, thermostat_setting)

---------------------------------------------------------------------------
(* C8 *)

\* C8: set_sensor_region(a, b) called again with the same arguments, after
\* any operations in between, yields the mask it yielded before: the result
\* depends on (a, b) and the grid only, never on the previous mask.
C8_SameArgsSameMask ==
    (last.op = "set_sensor_region" /\ probe # NoProbe
        /\ probe.args = last.args) => sensor_mask = probe.mask

\* the recorded call, then another operation, then the same call again on a
\* different previous mask
C8_Witness ==
    /\ last.op = "set_sensor_region"
    /\ probe # NoProbe
    /\ probe.args = last.args
    /\ probe.at = 1
    /\ nops = 3
    /\ Selected(sensor_mask) # {}

---------------------------------------------------------------------------
(* C9 *)

\* C9: overlapping radiator regions are not counted twice: after any
\* add_radiator calls since construction or the last clear_radiators,
\* active_cells_count is the number of distinct interior cells in the union
\* of the added rectangles, and adding the same rectangle again changes
\* neither the mask, the count nor the heating rate.
C9_NoDoubleCount ==
    /\ [](active_cells_count = Cardinality(covered \cap InteriorCells))
    /\ [][ (IsCall("add_radiator") /\ last.op = "add_radiator"
            /\ last'.args = last.args) =>
              /\ radiator_mask' = radiator_mask
              /\ active_cells_count' = active_cells_count
              /\ heating_factor_per_step' = heating_factor_per_step ]_vars

---------------------------------------------------------------------------
(* C10 *)

\* C10: clear_radiators() empties the radiator mask and zeroes
\* active_cells_count and heating_factor_per_step; from then until the next
\* add_radiator that covers an interior cell no step() injects heat or
\* changes total_energy, whatever had been added before the clear.
C10_ClearStopsHeating ==
    /\ [](last.op = "clear_radiators" =>
            /\ Selected(radiator_mask) = {}
            /\ active_cells_count = 0
            /\ heating_factor_per_step[1] = 0)
    /\ [][ (IsCall("step") /\ "clear_radiators" \in called
            /\ covered \cap InteriorCells = {}) =>
              /\ total_energy' = total_energy
              /\ last'.heated = {} ]_vars

---------------------------------------------------------------------------
(* C11 *)

\* C11: the stability check reports unstable exactly when
\* dt > 0.34*dx^2/alpha and stable otherwise (for dx = 2.0 and alpha = 1.25
\* the threshold is given as 1.36).
C11_StabilityPredicate ==
    main.report # "none" =>
        (main.report = "unstable" <=>
            main.dt * main.alpha > stability_factor * 100 * main.h * main.h)

---------------------------------------------------------------------------
(* C12 *)

\* the left-right mirror image of a field
Mirror(A) == [i \in 0..(ny - 1) |-> [j \in 0..(nx - 1) |-> A[i][nx - 1 - j]]]

\* C12: with no windows and otherwise identical configuration, a solver
\* with its single radiator at x and one with it at Lx - x - width have,
\* after the same number of step() calls, fields that are left-right mirror
\* images of each other, hence the same domain mean and the same
\* total_energy.
C12_MirrorSymmetry ==
    (twin.pc = "ready" /\ twin.args # <<>>) =>
        /\ twin.u = Mirror(u)
        /\ NpSum(twin.u) = NpSum(u)
        /\ twin.total_energy = total_energy

---------------------------------------------------------------------------
(* C13 *)

\* every boundary cell is within Epsilon of u_outdoor
BoundaryNear ==
    \A rc \in BoundaryCells :
        /\ u[rc[1]][rc[2]] - u_outdoor <= Epsilon
        /\ u_outdoor - u[rc[1]][rc[2]] <= Epsilon

\* the time step of configuration c is within the bound of the explicit
\* scheme in two dimensions: alpha*dt/dx**2 <= 1/4
Stable(c) == 4 * c["alpha"] * c["dt"] <= c["dx"] * c["dx"]

\* the solver was built from a configuration with such a time step
StableStep == config \in {c \in LongRunConfigs : Stable(c)}

---------------------------------------------------------------------------
(* C14 *)

\* the five-point sum of field A around the interior cell rc
Lap(A, rc) ==
    A[rc[1] - 1][rc[2]] + A[rc[1] + 1][rc[2]] + A[rc[1]][rc[2] - 1]
    + A[rc[1]][rc[2] + 1] - 4 * A[rc[1]][rc[2]]

\* the diffusion change of cell rc computed from field A
Diffusion(A, rc) == RoundDiv(alpha * dt * Lap(A, rc), dx * dx)

\* the radiator source term of cell rc computed from field A
Source(A, rc, hf) == RoundDiv(hf[1] * A[rc[1]][rc[2]], hf[2])

\* the Robin values an edge cell can take from its neighbour's value v
EdgeValues(v) == {Robin(v, beta_wall), Robin(v, beta_window)}

\* C14: within one step() the Laplacian, the sensed mean and the source
\* term are computed from the field as it was at step start: the new value
\* of every interior cell is a function of pre-step values only, and the
\* interior is written before the boundary, whose cells are computed from
\* the interior values this step has written.
C14_PreStepSnapshot ==
    [][ IsCall("step") =>
          /\ last'.fired <=>
                (/\ MeanBelow(u, SensedCells, thermostat_setting)
                 /\ active_cells_count > 0)
          /\ \A rc \in InteriorCells :
                u'[rc[1]][rc[2]] - u[rc[1]][rc[2]] \in
                    {Diffusion(u, rc),
                     Diffusion(u, rc) + Source(u, rc, heating_factor_per_step)}
          /\ \A i \in 1..(ny - 2) :
                /\ u'[i][0] \in EdgeValues(u'[i][1])
                /\ u'[i][nx - 1] \in EdgeValues(u'[i][nx - 2])
          /\ \A j \in 1..(nx - 2) :
                /\ u'[0][j] \in EdgeValues(u'[1][j])
                /\ u'[ny - 1][j] \in EdgeValues(u'[ny - 2][j])
      ]_vars

\* the radiator has fired in a room that started exactly at the setpoint:
\* an earlier step had cooled the edges, so the step that fired started from
\* a non-uniform field
C14_Witness ==
    /\ last.op = "step"
    /\ last.fired
    /\ last.heated # {}
    /\ config["u_start"] = thermostat_setting
    /\ \E rc \in InteriorCells : Lap(u, rc) # 0

---------------------------------------------------------------------------
(* C15 *)

\* the active radiator cells: the interior cells the radiator mask selects
ActiveCells == Selected(radiator_mask) \cap InteriorCells

\* C15: on a step where the heater fires (sensed mean < thermostat_temp and
\* active_cells_count > 0) each active radiator cell becomes its pre-step
\* value plus the diffusion change plus heating_factor_per_step times its
\* pre-step value, and every other interior cell receives the diffusion
\* change only; on a step where it does not fire (sensed mean equal to
\* thermostat_temp included) every interior cell receives the diffusion
\* change only.
C15_SourceTerm ==
    [][ IsCall("step") =>
          LET fires == /\ MeanBelow(u, SensedCells, thermostat_setting)
                       /\ active_cells_count > 0
          IN  \A rc \in InteriorCells :
                  u'[rc[1]][rc[2]] =
                      u[rc[1]][rc[2]] + Diffusion(u, rc)
                      + (IF fires /\ rc \in ActiveCells
                         THEN Source(u, rc, heating_factor_per_step)
                         ELSE 0)
      ]_vars

\* a step fired with some interior cells active and others not
C15_Witness ==
    /\ last.op = "step"
    /\ last.fired
    /\ last.heated # {}
    /\ last.heated = ActiveCells
    /\ InteriorCells \ ActiveCells # {}

---------------------------------------------------------------------------
(* C16 *)

\* C16: heating_factor_per_step is derived from the total mask: with
\* active_cells_count = n > 0, n being the number of active cells of the
\* whole mask, it equals (power/n)*r_gas*dt/(pressure*dx^2*c_specific), one
\* rate for all active cells whichever call added them, and with
\* active_cells_count = 0 it equals 0.
C16_HeatingFactor ==
    /\ active_cells_count = Cardinality(ActiveCells)
    /\ heating_factor_per_step[2] > 0
    /\ IF active_cells_count > 0
       THEN heating_factor_per_step[1]
                * (active_cells_count * p_pressure * dx * dx * c_specific)
            = heating_factor_per_step[2] * (P * r_gas * dt)
       ELSE heating_factor_per_step[1] = 0

\* a second add_radiator has enlarged a mask that already had active cells
C16_Witness ==
    /\ last.op = "add_radiator"
    /\ last.args[1] >= 0
    /\ last.args[2] >= 0
    /\ RectCells(last.args[1], last.args[2], last.args[3], last.args[4])
           \cap InteriorCells # {}
    /\ active_cells_count >
           Cardinality(RectCells(last.args[1], last.args[2], last.args[3],
                                 last.args[4]) \cap InteriorCells)
    /\ "clear_radiators" \in called

---------------------------------------------------------------------------
(* C17 *)

\* the rows of the window span
WindowSpan == {i \in 0..(ny - 1) : window_y_start <= i /\ i < window_y_end}

\* C17: after every step() each non-corner cell of the four edges equals
\* (adjacent interior value + beta*u_outdoor)/(1 + beta), the adjacent
\* interior value being the one this step has already updated, with
\* beta = beta_wall for every top-edge and bottom-edge cell and for every
\* left-edge and right-edge cell outside a window span.
C17_RobinEdges ==
    last.op = "step" =>
        /\ \A j \in 1..(nx - 2) :
              /\ u[0][j] = Robin(u[1][j], beta_wall)
              /\ u[ny - 1][j] = Robin(u[ny - 2][j], beta_wall)
        /\ \A i \in 1..(ny - 2) :
              /\ (~window_left \/ i \notin WindowSpan) =>
                    u[i][0] = Robin(u[i][1], beta_wall)
              /\ (~window_right \/ i \notin WindowSpan) =>
                    u[i][nx - 1] = Robin(u[i][nx - 2], beta_wall)

\* a step has heated a cell next to the top edge, and the edge cell above it
\* has followed the heated value
C17_Witness ==
    /\ last.op = "step"
    /\ \E rc \in last.heated :
          /\ rc[1] = 1
          /\ u[1][rc[2]] > config["u_start"]
          /\ u[0][rc[2]] = Robin(u[1][rc[2]], beta_wall)
          /\ u[0][rc[2]] # Robin(config["u_start"], beta_wall)

---------------------------------------------------------------------------
(* C18 *)

\* the rows [floor((ny - floor(ny/2))/2), floor((ny - floor(ny/2))/2)
\* + floor(ny/2))
SpanRows ==
    LET lo == (ny - (ny \div 2)) \div 2
    IN  {i \in 0..(ny - 1) : lo <= i /\ i < lo + (ny \div 2)}

\* column c is a side edge whose cells hold beta_window values exactly in
\* the rows of the span when its flag w is set and beta_wall values in its
\* other non-corner rows; its two corners, cells of the top and the bottom
\* edge, are computed with beta_wall alone, from the wall value of the edge
\* cell next to them
SideEdge(c, inner, w) ==
    /\ \A i \in 1..(ny - 2) :
          u[i][c] = Robin(u[i][inner],
                          IF w /\ i \in SpanRows THEN beta_window ELSE beta_wall)
    /\ u[0][c] = Robin(Robin(u[1][inner], beta_wall), beta_wall)
    /\ u[ny - 1][c] = Robin(Robin(u[ny - 2][inner], beta_wall), beta_wall)

\* C18: when window_left (resp. window_right) is set, after every step()
\* exactly the cells of the left (resp. right) edge column with row index in
\* [floor((ny - floor(ny/2))/2), floor((ny - floor(ny/2))/2) + floor(ny/2))
\* hold the Robin value computed with beta_window, every other cell of that
\* edge holds the value computed with beta_wall, top and bottom edge cells
\* are never computed with beta_window, and with both flags unset no cell
\* uses beta_window.
C18_WindowSpan ==
    last.op = "step" =>
        /\ SpanRows \subseteq 1..(ny - 2)
        /\ SideEdge(0, 1, window_left)
        /\ SideEdge(nx - 1, nx - 2, window_right)
        /\ \A j \in 1..(nx - 2) :
              /\ u[0][j] = Robin(u[1][j], beta_wall)
              /\ u[ny - 1][j] = Robin(u[ny - 2][j], beta_wall)

\* a room of 7 rows stepped with a window on the left only: rows 2, 3 and 4
\* of the left edge hold the window value, the same rows of the right edge
\* the wall value, and the two differ
C18_Witness ==
    /\ last.op = "step"
    /\ ny = 7
    /\ window_left
    /\ ~window_right
    /\ SpanRows = {2, 3, 4}
    /\ \A i \in SpanRows :
          /\ u[i][0] = Robin(u[i][1], beta_window)
          /\ u[i][0] # Robin(u[i][1], beta_wall)
          /\ u[i][nx - 1] = Robin(u[i][nx - 2], beta_wall)

---------------------------------------------------------------------------
(* C19 *)

\* C19: when the sensor mask selects no cell (after set_sensor_region with
\* x_start >= x_end or a span outside the domain), step() takes the mean of
\* the entire field as the sensed temperature and completes without failing.
C19_EmptySensorFallback ==
    [][ (StepTaken /\ Selected(sensor_mask) = {}) =>
          /\ last'.exc = "none"
          /\ last'.fired <=>
                (/\ MeanBelow(u, AllCells, thermostat_setting)
                 /\ active_cells_count > 0)
      ]_vars

\* with an empty sensor mask, in a room that started above the setpoint,
\* the second step of a run has fired and the first has not: the second
\* started from an interior still at u_start, and only the cooled edge
\* cells brought the mean of the field below the setpoint
C19_Witness ==
    /\ Selected(sensor_mask) = {}
    /\ "set_sensor_region" \in called
    /\ config["u_start"] > thermostat_setting
    /\ run.calls = 2
    /\ last.fired
    /\ total_energy = P * dt

---------------------------------------------------------------------------
(* C20 *)

\* C20: in every state reachable by any interleaving of set_windows,
\* clear_radiators, add_radiator, set_sensor_region and step (step or
\* clear_radiators before any add_radiator included) the interior radiator
\* mask that step() reads is defined whenever active_cells_count > 0, so
\* step() never reads an undefined mask and never fails.
C20_MaskInnerDefined ==
    /\ active_cells_count > 0 => mask_inner_bound
    /\ last.exc = "none"

\* a cold room was stepped after clear_radiators and before any
\* add_radiator: the sensed mean was below the setpoint and mask_inner did
\* not exist
C20_Witness ==
    /\ last.op = "step"
    /\ ~mask_inner_bound
    /\ "clear_radiators" \in called
    /\ MeanBelow(u, SensedCells, thermostat_setting)
    /\ config["u_start"] = u_outdoor
    /\ last.exc = "none"

---------------------------------------------------------------------------
(* C21: what each operation leaves alone *)

\* A is an ny x nx array
HasShape(A) ==
    /\ DOMAIN A = 0..(ny - 1)
    /\ \A i \in DOMAIN A : DOMAIN A[i] = 0..(nx - 1)

\* a call of one of the four configuring methods
ConfiguringCall ==
    \/ IsCall("set_windows")
    \/ IsCall("clear_radiators")
    \/ IsCall("add_radiator")
    \/ IsCall("set_sensor_region")

\* C21: set_windows, clear_radiators, add_radiator and set_sensor_region
\* leave the temperature field and total_energy unchanged; step() leaves
\* the radiator mask, active_cells_count, heating_factor_per_step, the
\* sensor mask and the window flags unchanged; the field keeps its ny x nx
\* shape under every operation.
C21_FrameEffects ==
    [][/\ ConfiguringCall => u' = u /\ total_energy' = total_energy
       /\ StepTaken =>
              /\ radiator_mask' = radiator_mask
              /\ active_cells_count' = active_cells_count
              /\ heating_factor_per_step' = heating_factor_per_step
              /\ sensor_mask' = sensor_mask
              /\ window_left' = window_left
              /\ window_right' = window_right
       /\ HasShape(u) => HasShape(u')]_vars

\* a configuring method has just been called on a solver whose field a
\* heated step has made non-uniform and whose energy counter is positive,
\* with radiator cells and a narrowed sensor mask in place
C21_Witness ==
    /\ last.op \in {"set_windows", "clear_radiators", "add_radiator",
                     "set_sensor_region"}
    /\ total_energy > 0
    /\ \E rc \in AllCells : u[rc[1]][rc[2]] # u[0][0]
    /\ HasShape(u)

---------------------------------------------------------------------------
(* C22: the corner cells *)

\* the corners as <<row, column, adjacent row, adjacent column, window flag
\* of the side>>: the cell of the same edge column in the adjacent row is
\* <<adjacent row, column>>, its interior neighbour <<adjacent row,
\* adjacent column>>
Corners ==
    { <<0, 0, 1, 1, window_left>>,
      <<ny - 1, 0, ny - 2, 1, window_left>>,
      <<0, nx - 1, 1, nx - 2, window_right>>,
      <<ny - 1, nx - 1, ny - 2, nx - 2, window_right>> }

\* the window override rewrites the edge cell next to corner k
Overridden(k) == k[5] /\ k[3] \in WindowSpan

\* C22 as stated: after every step(), each of the four corner cells equals
\* the wall Robin formula applied to the cell of the left or right edge
\* column in the adjacent row.
C22_Original ==
    (last.op = "step" /\ last.exc = "none") =>
        \A k \in Corners : u[k[1]][k[2]] = Robin(u[k[3]][k[2]], beta_wall)

\* C22, amended: after every step(), each of the four corner cells equals
\* the wall Robin formula applied to the value the left or right column
\* update wrote in the adjacent row, which is the wall Robin formula applied
\* to the just-updated interior neighbour of that edge cell; the edge cell
\* still holds that value, and the corner equals the wall formula applied
\* to it, unless a window override rewrote it afterwards.
C22_CornerCells ==
    (last.op = "step" /\ last.exc = "none") =>
        \A k \in Corners :
            /\ u[k[1]][k[2]] =
                   Robin(Robin(u[k[3]][k[4]], beta_wall), beta_wall)
            /\ ~Overridden(k) =>
                   u[k[1]][k[2]] = Robin(u[k[3]][k[2]], beta_wall)

\* a room stepped with a window on the left that reaches row 1: the
\* top-left corner holds the wall formula of the wall value of its
\* neighbour, which differs from the wall formula of the window value the
\* neighbour ends the step with
C22_Witness ==
    /\ last.op = "step"
    /\ last.exc = "none"
    /\ window_left
    /\ 1 \in WindowSpan
    /\ u[0][0] = Robin(Robin(u[1][1], beta_wall), beta_wall)
    /\ u[1][0] = Robin(u[1][1], beta_window)
    /\ u[0][0] # Robin(u[1][0], beta_wall)

---------------------------------------------------------------------------
(* C23: the field stays between u_start and u_outdoor *)

\* the smaller and the larger of u_start and u_outdoor, as the
\* floating-point numbers the solver holds
StartLo == Min(ToFl(config["u_start"]), ToFl(u_outdoor))

StartHi == Max(ToFl(config["u_start"]), ToFl(u_outdoor))

\* no radiator cell is active and none has heated, and alpha*dt/dx**2 <= 1/4
Unheated ==
    /\ constructed = "ok"
    /\ active_cells_count = 0
    /\ total_energy = 0
    /\ Stable(config)

---------------------------------------------------------------------------
(* C24: the window span stays clear of the corners *)

\* the rows of the edge column that the slice [y_start:y_end] of the window
\* override assigns
OverrideRows ==
    {i \in 0..(ny - 1) :
        /\ SliceStart(window_y_start, ny) <= i
        /\ i < SliceStart(window_y_start, ny)
                   + SliceLen(window_y_start, window_y_end, ny)}

\* C24: for every ny >= 3 the window row span [y_start, y_end) computed in
\* _apply_boundary_conditions satisfies 1 <= y_start and y_end <= ny - 1,
\* so the window override never rewrites a corner cell and never indexes
\* outside the edge column.
C24_SpanInsideEdge ==
    (constructed = "ok" /\ ny >= 3) =>
        /\ 1 <= window_y_start
        /\ window_y_end <= ny - 1
        /\ OverrideRows = {i \in 0..(ny - 1) :
                              window_y_start <= i /\ i < window_y_end}
        /\ OverrideRows \subseteq 1..(ny - 2)
        /\ last.op = "step" =>
              /\ last.exc = "none"
              /\ \A k \in Corners :
                    u[k[1]][k[2]] =
                        Robin(Robin(u[k[3]][k[4]], beta_wall), beta_wall)

\* the smallest grid of the claim, 3 rows, stepped with both windows: row 1
\* of both edge columns holds the window value, which differs from the
\* wall value, and the four corners hold wall values
C24_Witness ==
    /\ constructed = "ok"
    /\ ny = 3
    /\ last.op = "step"
    /\ window_left
    /\ window_right
    /\ OverrideRows = {1}
    /\ u[1][0] = Robin(u[1][1], beta_window)
    /\ u[1][0] # Robin(u[1][1], beta_wall)
    /\ u[1][nx - 1] = Robin(u[1][nx - 2], beta_window)
    /\ \A k \in Corners :
          u[k[1]][k[2]] = Robin(Robin(u[k[3]][k[4]], beta_wall), beta_wall)

=============================================================================
